---- MODULE Spec2Model ----
(***************************************************************************)
(* Daily Task Tracker bot (src/bot.py): the message classifier             *)
(* TaskParser.parse_message, the spreadsheet client GoogleSheetsManager    *)
(* and the conversation handler handle_message.                            *)
(*                                                                         *)
(* A text is a sequence of characters; a character is a one-letter string, *)
(* or the code point name of a glyph ("U+2705" is the white heavy check    *)
(* mark).  The regular expressions of parse_message are evaluated on the   *)
(* characters, with Python's meaning of \b, \s, ? and re.IGNORECASE.       *)
(***************************************************************************)
EXTENDS Integers, Sequences, FiniteSets, TLC

(***************************************************************************)
(* Characters                                                              *)
(***************************************************************************)
LowerLetters ==
  {"a", "b", "c", "d", "e", "f", "g", "h", "i", "k", "l", "m", "n", "o",
   "j", "p", "r", "s", "t", "u", "w", "x", "z"}

UpperLetters == {"C", "D", "W"}

\* str.lower() of one character, as re.IGNORECASE compares them
Lower(c) ==
  CASE c = "C" -> "c"
    [] c = "D" -> "d"
    [] c = "W" -> "w"
    [] OTHER -> c

\* \w : letters are word characters, glyphs and blanks are not
IsWordChar(c) == c \in LowerLetters \cup UpperLetters

\* \s, and what str.strip() removes
IsSpace(c) == c = " "

\* the code points of the glyphs of the patterns
CheckMark == <<"U+2705">>
ThinCheck == <<"U+2713">>
BallotBox == <<"U+2611", "U+FE0F">>
Arrows == <<"U+1F504">>
Hourglass == <<"U+23F3">>

(***************************************************************************)
(* Regular expression primitives                                           *)
(***************************************************************************)
\* \b at offset i (between character i and character i+1, 0 <= i <= Len)
AtBoundary(t, i) ==
  LET before == i >= 1 /\ IsWordChar(t[i])
      after == i + 1 <= Len(t) /\ IsWordChar(t[i + 1])
  IN  before # after

\* the literal lit (lower case) matches t at offset i, ignoring case
MatchLit(t, i, lit) ==
  /\ i + Len(lit) <= Len(t)
  /\ \A k \in 1..Len(lit) : Lower(t[i + k]) = lit[k]

\* offset reached from i by \s* (greedy)
RECURSIVE SkipSpaces(_, _)
SkipSpaces(t, i) ==
  IF i + 1 <= Len(t) /\ IsSpace(t[i + 1]) THEN SkipSpaces(t, i + 1) ELSE i

\* str.strip()
RECURSIVE LStrip(_)
LStrip(t) ==
  IF t # <<>> /\ IsSpace(Head(t)) THEN LStrip(Tail(t)) ELSE t

RECURSIVE RStrip(_)
RStrip(t) ==
  IF t # <<>> /\ IsSpace(t[Len(t)]) THEN RStrip(SubSeq(t, 1, Len(t) - 1)) ELSE t

Strip(t) == RStrip(LStrip(t))

(***************************************************************************)
(* The patterns of parse_message.  An optional last letter (completed?,    *)
(* finished?) is the ordered alternation of the long and the short form.   *)
(***************************************************************************)
W_completed == <<"c", "o", "m", "p", "l", "e", "t", "e", "d">>
W_complete == <<"c", "o", "m", "p", "l", "e", "t", "e">>
W_finished == <<"f", "i", "n", "i", "s", "h", "e", "d">>
W_finishe == <<"f", "i", "n", "i", "s", "h", "e">>
W_finish == <<"f", "i", "n", "i", "s", "h">>
W_done == <<"d", "o", "n", "e">>
W_working_on == <<"w", "o", "r", "k", "i", "n", "g", " ", "o", "n">>
W_started == <<"s", "t", "a", "r", "t", "e", "d">>
W_begun == <<"b", "e", "g", "u", "n">>
W_in_progress == <<"i", "n", " ", "p", "r", "o", "g", "r", "e", "s", "s">>

\* (completed?|finished?|done)
DoneWords == <<W_completed, W_complete, W_finished, W_finishe, W_done>>
\* (U+2705|U+2713|U+2611 U+FE0F)
DoneGlyphs == <<CheckMark, ThinCheck, BallotBox>>
\* (working on|started|begun|in progress)
ProgressWords == <<W_working_on, W_started, W_begun, W_in_progress>>
\* (U+1F504|U+23F3)
ProgressGlyphs == <<Arrows, Hourglass>>

\* re.search(r'\b(alts)\b', t, re.IGNORECASE)
SearchBounded(t, alts) ==
  \E i \in 0..Len(t) : \E a \in 1..Len(alts) :
     /\ AtBoundary(t, i)
     /\ MatchLit(t, i, alts[a])
     /\ AtBoundary(t, i + Len(alts[a]))

\* re.search(r'\b(alts)\s+(.+)', t, re.IGNORECASE): the word, one blank at
\* least, and one more character at least (backtracking may give back blanks)
SearchFollowed(t, alts) ==
  \E i \in 0..Len(t) : \E a \in 1..Len(alts) :
     /\ AtBoundary(t, i)
     /\ MatchLit(t, i, alts[a])
     /\ i + Len(alts[a]) + 1 <= Len(t)
     /\ IsSpace(t[i + Len(alts[a]) + 1])
     /\ i + Len(alts[a]) + 2 <= Len(t)

\* the first alternative of alts that matches at offset i, 0 if none
RECURSIVE FirstAlt(_, _, _, _)
FirstAlt(t, i, alts, a) ==
  IF a > Len(alts) THEN 0
  ELSE IF MatchLit(t, i, alts[a]) THEN a
  ELSE FirstAlt(t, i, alts, a + 1)

\* re.sub(r'\b(alts)\s*', '', t, flags=re.IGNORECASE) from offset i on:
\* leftmost matches, not overlapping, each with the blanks that follow it
RECURSIVE SubFrom(_, _, _)
SubFrom(t, i, alts) ==
  IF i >= Len(t) THEN <<>>
  ELSE LET a == IF AtBoundary(t, i) THEN FirstAlt(t, i, alts, 1) ELSE 0
       IN  IF a # 0
           THEN SubFrom(t, SkipSpaces(t, i + Len(alts[a])), alts)
           ELSE <<t[i + 1]>> \o SubFrom(t, i + 1, alts)

SubAll(t, alts) == SubFrom(t, 0, alts)

\* the five done_patterns, any of them found
DonePatternFound(t) ==
  \/ SearchBounded(t, DoneWords)
  \/ SearchBounded(t, DoneGlyphs)
  \/ SearchFollowed(t, <<W_completed, W_complete>>)
  \/ SearchFollowed(t, <<W_finished, W_finishe>>)
  \/ SearchFollowed(t, <<W_done>>)

\* the four progress_patterns, any of them found
ProgressPatternFound(t) ==
  \/ SearchBounded(t, ProgressWords)
  \/ SearchBounded(t, ProgressGlyphs)
  \/ SearchFollowed(t, <<W_working_on>>)
  \/ SearchFollowed(t, <<W_started>>)

\* TaskParser.parse_message(text) -> (task, status)
parse_message(text) ==
  LET t == Strip(text)
  IN  IF DonePatternFound(t)
      THEN [task |-> Strip(SubAll(t, DoneWords \o DoneGlyphs)), status |-> "Done"]
      ELSE IF ProgressPatternFound(t)
      THEN [task |-> Strip(SubAll(t, ProgressWords \o ProgressGlyphs)),
            status |-> "In Progress"]
      ELSE [task |-> t, status |-> "Done"]


(***************************************************************************)
(* Bounds of the model                                                     *)
(***************************************************************************)
\* inbound messages handled in one behaviour
MaxMsgs == 2
\* concurrent webhook deliveries (handle_message coroutines / workers)
NumProcs == 2
\* setup_sheet calls in one behaviour (the constructor's call is the first)
MaxSetupCalls == 2
\* rows of the largest initial sheet (a header and five data rows)
InitialRows == 6
MaxRow == InitialRows + MaxMsgs

Procs == 1..NumProcs
None == 0

(***************************************************************************)
(* The worksheet: rows of five cells (columns A..E), a cell is a text and  *)
(* the empty cell is the empty text.                                       *)
(***************************************************************************)
EmptyCell == <<>>
EmptyRow == <<EmptyCell, EmptyCell, EmptyCell, EmptyCell, EmptyCell>>

\* [['Date', 'Time', 'Task', 'Status', 'Notes']]
Header ==
  << <<"D", "a", "t", "e">>, <<"T", "i", "m", "e">>, <<"T", "a", "s", "k">>,
     <<"S", "t", "a", "t", "u", "s">>, <<"N", "o", "t", "e", "s">> >>

\* the status labels, as written into column D
StatusCell(status) ==
  IF status = "Done" THEN <<"D", "o", "n", "e">>
  ELSE <<"I", "n", " ", "P", "r", "o", "g", "r", "e", "s", "s">>

\* number of the last populated column of a row, 0 for an empty row
RECURSIVE LastCol(_, _)
LastCol(row, c) ==
  IF c = 0 THEN 0 ELSE IF row[c] # EmptyCell THEN c ELSE LastCol(row, c - 1)

\* number of the last populated row of the sheet, 0 for an empty sheet
RECURSIVE LastPopulated(_, _)
LastPopulated(rs, r) ==
  IF r = 0 THEN 0 ELSE IF rs[r] # EmptyRow THEN r ELSE LastPopulated(rs, r - 1)

\* worksheet.row_values(n): the row without its trailing empty cells
row_values(rs, n) == SubSeq(rs[n], 1, LastCol(rs[n], 5))

\* worksheet.get_all_values(): the rows up to the last populated one
get_all_values(rs) == [r \in 1..LastPopulated(rs, MaxRow) |-> rs[r]]

\* a true append: the row lands after the last populated row at write time
update_append(rs, n, values) ==
  [rs EXCEPT ![LastPopulated(rs, MaxRow) + 1] = values]

\* worksheet.update('A<n>:E<n>', [[five values]])
update(rs, n, values) == [rs EXCEPT ![n] = values]

(***************************************************************************)
(* datetime.now() and strftime                                             *)
(***************************************************************************)
\* the minute in which the messages of a behaviour are handled
Instants ==
  { [year |-> 2025, month |-> 5, day |-> 21, hour |-> 9, minute |-> 5] }

Digit(n) ==
  CASE n = 0 -> "0" [] n = 1 -> "1" [] n = 2 -> "2" [] n = 3 -> "3"
    [] n = 4 -> "4" [] n = 5 -> "5" [] n = 6 -> "6" [] n = 7 -> "7"
    [] n = 8 -> "8" [] n = 9 -> "9"

Pad2(n) == <<Digit((n \div 10) % 10), Digit(n % 10)>>
Pad4(n) == <<Digit((n \div 1000) % 10), Digit((n \div 100) % 10)>> \o Pad2(n % 100)

\* now.strftime("%Y-%m-%d")
strftime_date(now) == Pad4(now.year) \o <<"-">> \o Pad2(now.month) \o <<"-">> \o Pad2(now.day)
\* now.strftime("%H:%M")
strftime_time(now) == Pad2(now.hour) \o <<":">> \o Pad2(now.minute)

(***************************************************************************)
(* Initial contents of the spreadsheet, which outlives the process         *)
(***************************************************************************)
DataRow(n) ==
  << <<"2", "0", "2", "5", "-", "0", "5", "-", "2", "0">>,
     <<"0", "8", ":", "0", Digit(n)>>, <<"o", "l", "d">>, StatusCell("Done"), EmptyCell >>

SheetEmpty == [r \in 1..MaxRow |-> EmptyRow]
\* row 1 holds a partial header (two columns)
SheetShortRow == [SheetEmpty EXCEPT ![1] = <<Header[1], Header[2], EmptyCell, EmptyCell, EmptyCell>>]
\* row 1 holds four columns that are not the header
SheetForeignRow == [SheetEmpty EXCEPT ![1] = <<<<"a">>, <<"b">>, <<"c">>, <<"d">>, EmptyCell>>]
\* a header and five data rows
SheetFiveRows ==
  [r \in 1..MaxRow |-> IF r = 1 THEN Header ELSE IF r <= InitialRows THEN DataRow(r) ELSE EmptyRow]

InitialSheets == {SheetEmpty, SheetShortRow, SheetForeignRow, SheetFiveRows}

(***************************************************************************)
(* Inbound message texts                                                   *)
(***************************************************************************)
M_ok == <<"o", "k">>
M_done_only == <<" ">> \o W_done
M_completed == <<"C">> \o Tail(W_completed) \o <<" ", "a", "b", "c">>
M_started == W_started \o <<" ", "a", "b", "c">>

Messages == {M_ok, M_done_only, M_completed, M_started}

\* parse_message of each message text, computed once
Parsed == [m \in Messages |-> parse_message(m)]


(***************************************************************************)
(* State                                                                   *)
(***************************************************************************)
VARIABLES
  credsOk,      \* GOOGLE_SHEETS_CREDENTIALS parses and is accepted
  rows,         \* the remote worksheet
  rows0,        \* the worksheet as the process found it (history)
  clock,        \* datetime.now(), to the minute
  constructed,  \* sheets_manager = GoogleSheetsManager() has returned
  sheet,        \* self.sheet: None, or the worksheet object of the n-th setup_sheet call
  setupCalls,   \* setup_sheet calls so far
  opens,        \* gc.open_by_key calls so far (contacts of the service)
  lastConnect,  \* how the latest setup_sheet call ended: "none", "ok", "failed"
  lastHeaders,  \* how the latest setup_headers call ended:
                \* "none", "kept", "written", "read_raised", "write_raised"
  msgs,         \* inbound messages received so far
  pc,           \* per delivery: "idle", "get_all_values", "update"
  handled,      \* per delivery: messages it has received
  text,         \* update.message.text
  task,         \* task, status: the result of parse_message
  status,
  date_str,
  time_str,
  next_row,
  sawSheet,     \* self.sheet as add_task found it
  ret,          \* outcome of add_task: "none", "True", "False", "raised"
  reply,        \* reply sent: "none", "detail", "recorded", "apology", "went_wrong"
  addCalls,     \* add_task calls for the message
  reads,        \* get_all_values calls for the message
  updates,      \* update calls for the message
  updatesOk,    \* update calls for the message that completed
  overlap,      \* another add_task invocation was in progress during this one
  interleaved,  \* two add_task invocations have been in progress at once
  succeeded,    \* add_task calls that returned True
  appended,     \* target rows of the add_task calls that returned True, in order
  baseCount,    \* populated rows when the constructor returned
  input,        \* classifier alone: the text given to parse_message
  output        \* classifier alone: what parse_message returned, or Unparsed

storeVars == <<credsOk, rows, rows0, clock>>
mgrVars == <<constructed, sheet, setupCalls, opens, lastConnect, lastHeaders, baseCount>>
callVars == <<task, status, date_str, time_str, next_row, sawSheet>>
countVars == <<addCalls, reads, updates, updatesOk>>
procVars == <<msgs, pc, handled, text, callVars, ret, reply, countVars, overlap, interleaved,
              succeeded, appended>>
parseVars == <<input, output>>
vars == <<storeVars, mgrVars, procVars, parseVars>>

Unparsed == [task |-> <<>>, status |-> "none"]

\* the process before sheets_manager is constructed, no message received
Fresh ==
  /\ rows0 = rows
  /\ constructed = FALSE
  /\ sheet = None
  /\ setupCalls = 0
  /\ opens = 0
  /\ lastConnect = "none"
  /\ lastHeaders = "none"
  /\ baseCount = 0
  /\ msgs = 0
  /\ pc = [p \in Procs |-> "idle"]
  /\ handled = [p \in Procs |-> 0]
  /\ text = [p \in Procs |-> <<>>]
  /\ task = [p \in Procs |-> <<>>]
  /\ status = [p \in Procs |-> "Done"]
  /\ date_str = [p \in Procs |-> <<>>]
  /\ time_str = [p \in Procs |-> <<>>]
  /\ next_row = [p \in Procs |-> 0]
  /\ sawSheet = [p \in Procs |-> None]
  /\ ret = [p \in Procs |-> "none"]
  /\ reply = [p \in Procs |-> "none"]
  /\ addCalls = [p \in Procs |-> 0]
  /\ reads = [p \in Procs |-> 0]
  /\ updates = [p \in Procs |-> 0]
  /\ updatesOk = [p \in Procs |-> 0]
  /\ overlap = [p \in Procs |-> FALSE]
  /\ interleaved = FALSE
  /\ succeeded = 0
  /\ appended = <<>>

Init ==
  /\ credsOk \in BOOLEAN
  /\ rows \in InitialSheets
  /\ clock \in Instants
  /\ Fresh
  /\ input = <<>>
  /\ output = Unparsed

(***************************************************************************)
(* GoogleSheetsManager.setup_headers and setup_sheet                       *)
(***************************************************************************)
\* the header is asked for unless all five columns are there
HeadersMissingFive(headers) == headers = <<>> \/ Len(headers) < 5

\* "not headers or len(headers) < 4"
HeadersMissing(headers) == headers = <<>> \/ Len(headers) < 4

\* how a setup_headers call ends, given which of its store calls raise
HeadersOutcome(rs, readRaises, writeRaises) ==
  IF readRaises THEN "read_raised"
  ELSE IF ~HeadersMissing(row_values(rs, 1)) THEN "kept"
  ELSE IF writeRaises THEN "write_raised"
  ELSE "written"

\* the worksheet after setup_headers; its exceptions are logged and dropped
setup_headers(rs, readRaises, writeRaises) ==
  IF HeadersOutcome(rs, readRaises, writeRaises) = "written"
  THEN update(rs, 1, Header)
  ELSE rs

\* an established handle is kept, the new connection dropped
ConnectResultCached(old, connected, fresh) ==
  IF old # None THEN old ELSE IF connected THEN fresh ELSE None

\* self.sheet after the connection steps of setup_sheet
\*   connected: json.loads, authorize and open_by_key all returned
ConnectResult(old, connected, fresh) == IF connected THEN fresh ELSE None

\* one setup_sheet call.  Invalid credentials raise before the service is
\* contacted; open_by_key contacts the service and may raise.
setup_sheet ==
  /\ setupCalls' = setupCalls + 1
  /\ \E reachable \in BOOLEAN, readRaises \in BOOLEAN, writeRaises \in BOOLEAN :
       LET connected == credsOk /\ reachable
       IN  /\ opens' = IF credsOk THEN opens + 1 ELSE opens
           /\ sheet' = ConnectResult(sheet, connected, setupCalls + 1)
           /\ lastConnect' = IF connected THEN "ok" ELSE "failed"
           /\ IF connected
              THEN /\ rows' = setup_headers(rows, readRaises, writeRaises)
                   /\ lastHeaders' = HeadersOutcome(rows, readRaises, writeRaises)
              ELSE /\ rows' = rows
                   /\ lastHeaders' = lastHeaders
  /\ UNCHANGED <<credsOk, rows0, clock>>

\* sheets_manager = GoogleSheetsManager(): __init__ calls setup_sheet
Construct ==
  /\ ~constructed
  /\ constructed' = TRUE
  /\ setup_sheet
  /\ baseCount' = Len(get_all_values(rows'))
  /\ UNCHANGED <<procVars, parseVars>>

\* a further call of setup_sheet on the constructed manager
Recall ==
  /\ constructed
  /\ setupCalls < MaxSetupCalls
  /\ setup_sheet
  /\ UNCHANGED <<constructed, baseCount>>
  /\ UNCHANGED <<procVars, parseVars>>

(***************************************************************************)
(* handle_message and GoogleSheetsManager.add_task                         *)
(***************************************************************************)
MinTaskLen == 3

\* two characters are enough
TooShortLenient(t) == Len(Strip(t)) < MinTaskLen - 1

\* "len(task.strip()) < 3"
TooShort(t) == Len(Strip(t)) < MinTaskLen

\* the exception of a store call leaves add_task
OnStoreErrorPropagate == "raised"

\* what add_task does with an exception of a store call: "return False"
OnStoreError == "False"

\* the success flag is ignored
ReplyForIgnoringFlag(outcome) ==
  CASE outcome = "raised" -> "went_wrong"
    [] OTHER -> "recorded"

\* the reply handle_message sends for an outcome of add_task
ReplyFor(outcome) ==
  CASE outcome = "True" -> "recorded"
    [] outcome = "False" -> "apology"
    [] OTHER -> "went_wrong"

\* the row count itself is taken as the next row
NextRowOffByOne(rs) == Len(get_all_values(rs))

\* "next_row = len(self.sheet.get_all_values()) + 1"
NextRow(rs) == Len(get_all_values(rs)) + 1

\* "[[date_str, time_str, task_text, status, ""]]"
TaskRow(p) == <<date_str[p], time_str[p], task[p], StatusCell(status[p]), EmptyCell>>

InAddTask(p) == pc[p] # "idle"

\* add_task returns (or raises) and handle_message replies
Finish(p, outcome) ==
  /\ pc' = [pc EXCEPT ![p] = "idle"]
  /\ ret' = [ret EXCEPT ![p] = outcome]
  /\ reply' = [reply EXCEPT ![p] = ReplyFor(outcome)]

\* a message arrives: parse, validate, enter add_task up to its first store call
Receive(p, txt) ==
  /\ constructed
  /\ pc[p] = "idle"
  /\ msgs < MaxMsgs
  /\ msgs' = msgs + 1
  /\ handled' = [handled EXCEPT ![p] = @ + 1]
  /\ text' = [text EXCEPT ![p] = txt]
  /\ task' = [task EXCEPT ![p] = Parsed[txt].task]
  /\ status' = [status EXCEPT ![p] = Parsed[txt].status]
  /\ reads' = [reads EXCEPT ![p] = 0]
  /\ updates' = [updates EXCEPT ![p] = 0]
  /\ updatesOk' = [updatesOk EXCEPT ![p] = 0]
  /\ IF TooShort(Parsed[txt].task)
     THEN /\ reply' = [reply EXCEPT ![p] = "detail"]
          /\ ret' = [ret EXCEPT ![p] = "none"]
          /\ addCalls' = [addCalls EXCEPT ![p] = 0]
          /\ UNCHANGED <<pc, date_str, time_str, sawSheet, overlap, interleaved>>
     ELSE /\ addCalls' = [addCalls EXCEPT ![p] = 1]
          /\ sawSheet' = [sawSheet EXCEPT ![p] = sheet]
          /\ IF sheet = None
             THEN /\ Finish(p, "False")
                  /\ UNCHANGED <<date_str, time_str, overlap, interleaved>>
             ELSE /\ date_str' = [date_str EXCEPT ![p] = strftime_date(clock)]
                  /\ time_str' = [time_str EXCEPT ![p] = strftime_time(clock)]
                  /\ pc' = [pc EXCEPT ![p] = "get_all_values"]
                  /\ ret' = [ret EXCEPT ![p] = "none"]
                  /\ reply' = [reply EXCEPT ![p] = "none"]
                  /\ overlap' = [q \in Procs |->
                                   IF q = p THEN \E o \in Procs \ {p} : InAddTask(o)
                                   ELSE overlap[q] \/ InAddTask(q)]
                  /\ interleaved' = (interleaved \/ \E o \in Procs \ {p} : InAddTask(o))
  /\ UNCHANGED <<storeVars, mgrVars, parseVars, next_row, succeeded, appended>>

\* "self.sheet.get_all_values()": raises, or returns the populated rows
GetAllValues(p) ==
  /\ pc[p] = "get_all_values"
  /\ reads' = [reads EXCEPT ![p] = @ + 1]
  /\ \E raises \in {r \in BOOLEAN : sheet = None => r} :
       IF raises
       THEN /\ Finish(p, OnStoreError)
            /\ UNCHANGED next_row
       ELSE /\ next_row' = [next_row EXCEPT ![p] = NextRow(rows)]
            /\ pc' = [pc EXCEPT ![p] = "update"]
            /\ UNCHANGED <<ret, reply>>
  /\ UNCHANGED <<storeVars, mgrVars, parseVars, msgs, handled, text, task, status, date_str, time_str,
                 sawSheet, addCalls, updates, updatesOk, overlap, interleaved, succeeded,
                 appended>>

\* "self.sheet.update(f'A{next_row}:E{next_row}', ...)": raises, or writes the row
Update(p) ==
  /\ pc[p] = "update"
  /\ updates' = [updates EXCEPT ![p] = @ + 1]
  /\ \E raises \in {r \in BOOLEAN : sheet = None => r} :
       IF raises
       THEN /\ Finish(p, OnStoreError)
            /\ UNCHANGED <<rows, updatesOk, succeeded, appended>>
       ELSE /\ rows' = update(rows, next_row[p], TaskRow(p))
            /\ updatesOk' = [updatesOk EXCEPT ![p] = @ + 1]
            /\ succeeded' = succeeded + 1
            /\ appended' = Append(appended, next_row[p])
            /\ Finish(p, "True")
  /\ UNCHANGED <<credsOk, rows0, clock, mgrVars, parseVars, msgs,
                 handled, text, callVars, addCalls, reads, overlap, interleaved>>

Next ==
  \/ Construct
  \/ \E p \in Procs, txt \in Messages : Receive(p, txt)
  \/ \E p \in Procs : GetAllValues(p)
  \/ \E p \in Procs : Update(p)

Spec == Init /\ [][Next]_vars

\* the manager used by one delivery at a time, with further setup_sheet calls
NextRecall ==
  \/ Construct
  \/ Recall
  \/ \E txt \in Messages : Receive(1, txt)
  \/ GetAllValues(1)
  \/ Update(1)

SpecRecall == Init /\ [][NextRecall]_vars

TypeOK ==
  /\ sheet \in 0..MaxSetupCalls
  /\ \A p \in Procs : pc[p] \in {"idle", "get_all_values", "update"}
  /\ \A p \in Procs : next_row[p] \in 0..MaxRow


(***************************************************************************)
(* The classifier alone: parse_message applied to the texts made of up to  *)
(* MaxAtoms pieces, and to the examples of the documentation.              *)
(***************************************************************************)
MaxAtoms == 3

Atoms ==
  << W_done, <<"D", "o", "n", "e">>, W_completed, W_finish, <<"e", "d">>, <<" ">>,
     <<"a", "b", "c">>, CheckMark, BallotBox, W_working_on, W_started, W_begun,
     Hourglass >>

RECURSIVE Flatten(_)
Flatten(ss) == IF ss = <<>> THEN <<>> ELSE Atoms[Head(ss)] \o Flatten(Tail(ss))

T_client_meeting ==
  CheckMark \o <<" ", "c", "l", "i", "e", "n", "t", " ", "m", "e", "e", "t", "i", "n", "g">>
T_sales_report ==
  <<"C">> \o Tail(W_completed)
    \o <<" ", "t", "h", "e", " ", "s", "a", "l", "e", "s", " ", "r", "e", "p", "o", "r", "t">>
T_project_planning ==
  <<"W">> \o Tail(W_working_on)
    \o <<" ", "p", "r", "o", "j", "e", "c", "t", " ", "p", "l", "a", "n", "n", "i", "n", "g">>

Inputs ==
  {Flatten(ss) : ss \in UNION {[1..n -> 1..Len(Atoms)] : n \in 0..MaxAtoms}}
    \cup {T_client_meeting, T_sales_report, T_project_planning, M_ok}

InitParse ==
  /\ credsOk = FALSE
  /\ rows = SheetEmpty
  /\ clock \in Instants
  /\ Fresh
  /\ input \in Inputs
  /\ output = Unparsed

\* task, status = TaskParser.parse_message(message_text)
Classify ==
  /\ output = Unparsed
  /\ output' = parse_message(input)
  /\ UNCHANGED <<input, storeVars, mgrVars, procVars>>

NextParse == Classify

SpecParse == InitParse /\ [][NextParse]_vars


(***************************************************************************)
(* Properties                                                              *)
(***************************************************************************)
PopulatedRows(rs) == LastPopulated(rs, MaxRow)
PopulatedCols(row) == Cardinality({c \in 1..5 : row[c] # EmptyCell})
Returned(p) == pc[p] = "idle" /\ addCalls[p] = 1

\* C1: add_task reads the row count and then writes at count+1 in two store
\* calls.  Whenever two invocations have both returned True for the same
\* target row they overlapped, and the sheet has gained fewer rows than
\* add_task reported successes: one of the two records is lost.
LostUpdate ==
  \A p, q \in Procs :
    (/\ p # q
     /\ Returned(p) /\ Returned(q)
     /\ ret[p] = "True" /\ ret[q] = "True"
     /\ next_row[p] = next_row[q])
    => /\ overlap[p] /\ overlap[q]
       /\ PopulatedRows(rows) - baseCount < succeeded
       /\ PopulatedRows(rows) < baseCount + Len(appended)

\* two invocations on a header plus five data rows both computed the row
\* after them, both wrote it and both returned True
LostUpdateReached ==
  \E p, q \in Procs :
    /\ p # q
    /\ rows0 = SheetFiveRows
    /\ Returned(p) /\ Returned(q)
    /\ ret[p] = "True" /\ ret[q] = "True"
    /\ next_row[p] = InitialRows + 1 /\ next_row[q] = InitialRows + 1
    /\ PopulatedRows(rows) = InitialRows + 1
    /\ succeeded = 2

\* C2: add_task never lets an exception out and returns a boolean; with the
\* handle unset it returns False and makes no store call; when a store call
\* raises it returns False; it returns True only when update completed.
AddTaskTotal ==
  \A p \in Procs :
    /\ ret[p] \in {"none", "True", "False"}
    /\ Returned(p) => ret[p] \in {"True", "False"}
    /\ (addCalls[p] = 1 /\ sawSheet[p] = None)
         => (ret[p] = "False" /\ reads[p] = 0 /\ updates[p] = 0 /\ pc[p] = "idle")
    /\ (Returned(p) /\ reads[p] = 1 /\ updates[p] = 0 /\ sawSheet[p] # None)
         => ret[p] = "False"
    /\ (Returned(p) /\ updates[p] = 1 /\ updatesOk[p] = 0) => ret[p] = "False"
    /\ ret[p] = "True" => (updatesOk[p] = 1 /\ reads[p] = 1)

\* add_task has returned False for an unset handle, without a store call
AddTaskFailedClosed ==
  \E p \in Procs :
    /\ Returned(p) /\ sawSheet[p] = None
    /\ ret[p] = "False" /\ reads[p] = 0 /\ updates[p] = 0

\* C3: a message whose description has fewer than 3 characters after
\* trimming is answered with the request for more detail, add_task is not
\* called for it and the handling of it leaves the sheet as it was.
ShortNeverRecorded ==
  /\ [](\A p \in Procs :
          (handled[p] > 0 /\ Len(Strip(Parsed[text[p]].task)) < 3)
            => (reply[p] = "detail" /\ addCalls[p] = 0 /\ pc[p] = "idle"))
  /\ [][\A p \in Procs :
          (handled'[p] # handled[p] /\ Len(Strip(Parsed[text'[p]].task)) < 3)
            => (rows' = rows /\ reads'[p] = 0 /\ updates'[p] = 0)]_vars

\* "ok" and " done" have both been answered with the request for detail
ShortRejected ==
  \E p, q \in Procs :
    /\ text[p] = M_ok /\ handled[p] > 0 /\ reply[p] = "detail"
    /\ text[q] = M_done_only /\ handled[q] > 0 /\ reply[q] = "detail"
    /\ task[q] = <<>>

\* C4: while the handle is established row 1 is the header and every row
\* written by add_task is row 2 or later, the k-th append in a row on an
\* initially empty sheet being row k+1.
HeaderAlwaysFirst ==
  sheet # None =>
    /\ rows[1] = Header
    /\ \A k \in 1..Len(appended) : appended[k] >= 2
    /\ (rows0 = SheetEmpty /\ ~interleaved)
         => \A k \in 1..Len(appended) : appended[k] = k + 1

\* C5: setup_headers writes the header into row 1 only when row 1 has fewer
\* than four populated columns, writes nothing over a valid header, touches
\* no other row, and a call that follows a completed call writes nothing.
HeadersIdempotent ==
  [][setupCalls' # setupCalls =>
       /\ rows' # rows => (PopulatedCols(rows[1]) < 4 /\ rows' = [rows EXCEPT ![1] = Header])
       /\ rows[1] = Header => rows' = rows
       /\ \A r \in 2..MaxRow : rows'[r] = rows[r]
       /\ lastHeaders \in {"kept", "written"} => rows' = rows]_vars

\* a second setup_sheet call has found the header the first one wrote
HeaderKeptBySecondCall ==
  /\ setupCalls = 2
  /\ lastHeaders = "kept"
  /\ rows0[1] # Header
  /\ rows[1] = Header

\* C6: when add_task fails the reply is the apology, no row of the message is
\* in the sheet, and no message has more than one add_task call or more than
\* one store write.
FailureReported ==
  /\ [](\A p \in Procs :
          /\ addCalls[p] <= 1 /\ updates[p] <= 1 /\ reads[p] <= 1
          /\ (Returned(p) /\ ret[p] # "True") => (reply[p] = "apology" /\ updatesOk[p] = 0))
  /\ [][\A p \in Procs :
          (pc'[p] = "idle" /\ addCalls'[p] = 1 /\ ret'[p] # "True"
             /\ (pc[p] # "idle" \/ handled'[p] # handled[p]))
            => rows' = rows]_vars

\* the update call of a message raised and the apology was sent
UpdateFailureReported ==
  \E p \in Procs :
    /\ Returned(p) /\ updates[p] = 1 /\ updatesOk[p] = 0
    /\ ret[p] = "False" /\ reply[p] = "apology"

\* the indicators as the documentation lists them
ListedDoneWords == <<W_completed, W_complete, W_finished, W_finish, W_done>>
ListedDoneGlyphs == <<CheckMark, ThinCheck, BallotBox>>
ListedProgressWords == <<W_working_on, W_started, W_begun, W_in_progress>>
ListedProgressGlyphs == <<Arrows, Hourglass>>

\* t contains one of the glyphs
HasGlyph(t, glyphs) ==
  \E i \in 0..Len(t) : \E g \in 1..Len(glyphs) : MatchLit(t, i, glyphs[g])

\* t contains a done indicator: one of the words as a whole word, or a glyph
HasDoneIndicator(t) == SearchBounded(t, ListedDoneWords) \/ HasGlyph(t, ListedDoneGlyphs)

\* t contains an in-progress indicator
HasProgressIndicator(t) ==
  SearchBounded(t, ListedProgressWords) \/ HasGlyph(t, ListedProgressGlyphs)

\* C7: a text that contains a done indicator is classified Done and its
\* description contains no done indicator any more; the check mark before
\* "client meeting" and "Completed" before "the sales report" are removed.
DoneIndicatorStripped ==
  output # Unparsed =>
    /\ HasDoneIndicator(input)
         => (output.status = "Done" /\ ~HasDoneIndicator(output.task))
    /\ input = T_client_meeting
         => output = [task |-> SubSeq(T_client_meeting, 3, Len(T_client_meeting)),
                      status |-> "Done"]
    /\ input = T_sales_report
         => output = [task |-> SubSeq(T_sales_report, 11, Len(T_sales_report)),
                      status |-> "Done"]

\* C8: a text with an in-progress indicator and no done indicator is
\* classified In Progress and the indicator is stripped; a text with neither
\* is classified Done and its description is the trimmed text.
ProgressOrDefault ==
  output # Unparsed =>
    /\ (HasProgressIndicator(input) /\ ~HasDoneIndicator(input))
         => (output.status = "In Progress" /\ ~HasProgressIndicator(output.task))
    /\ (~HasProgressIndicator(input) /\ ~HasDoneIndicator(input))
         => output = [task |-> Strip(input), status |-> "Done"]

\* C9 as claimed: an established handle is never unset or replaced, and a
\* further setup_sheet call does not contact the service again.
HandleCached ==
  [][sheet # None => (sheet' = sheet /\ opens' = opens)]_vars

\* C9: every setup_sheet call with usable credentials contacts the service
\* and leaves the handle it opened, or None when it failed, whatever the
\* handle was before; no other step changes the handle, and add_task uses the
\* handle in place when it is called.
HandleFollowsLatestSetup ==
  [][/\ IF setupCalls' # setupCalls
        THEN /\ credsOk => opens' = opens + 1
             /\ lastConnect' = "ok" => (sheet' = setupCalls' /\ sheet' # sheet)
             /\ lastConnect' = "failed" => sheet' = None
        ELSE sheet' = sheet /\ opens' = opens
     /\ \A p \in Procs :
          (handled'[p] # handled[p] /\ addCalls'[p] = 1) => sawSheet'[p] = sheet]_vars

\* an add_task used the handle of the constructor, a further setup_sheet call
\* has since replaced it
HandleReplaced ==
  \E p \in Procs : addCalls[p] = 1 /\ sawSheet[p] = 1 /\ sheet = 2 /\ opens = 2

\* C10: a successful add_task that overlapped no other add_task writes the
\* five cells (date, time, description, status, empty notes) into the row
\* after the last populated row, which makes one populated row more, and
\* changes no other row.
SequentialAppend ==
  [][\A p \in Procs :
       (updatesOk'[p] = updatesOk[p] + 1 /\ ~overlap[p])
         => /\ next_row[p] = PopulatedRows(rows) + 1
            /\ rows'[next_row[p]] =
                 <<strftime_date(clock), strftime_time(clock), Parsed[text[p]].task,
                   StatusCell(Parsed[text[p]].status), EmptyCell>>
            /\ Len(rows'[next_row[p]]) = 5
            /\ PopulatedRows(rows') = PopulatedRows(rows) + 1
            /\ \A r \in 1..MaxRow : r # next_row[p] => rows'[r] = rows[r]
            /\ ret'[p] = "True"]_vars

\* two appends one after the other on an empty sheet that got its header
AppendedInSequence ==
  /\ rows0 = SheetEmpty
  /\ ~interleaved
  /\ appended = <<2, 3>>
  /\ rows[1] = Header
  /\ rows[2] # EmptyRow /\ rows[3] # EmptyRow
  /\ PopulatedRows(rows) = 3

====
